---- MODULE Spec2Model ----
(***************************************************************************)
(* Recording lifecycle of the transcriptor: the recordings / transcripts / *)
(* segments tables, _process_file run by the watcher loop and by           *)
(* background threads, the upload and reprocess endpoints.                 *)
(*                                                                         *)
(* A database commit is one atomic step.  A session only UPDATEs the       *)
(* columns whose new value differs from the value it loaded, so a step     *)
(* that commits later than it read keeps the snapshot it read.             *)
(***************************************************************************)
EXTENDS Integers, Sequences, FiniteSets, TLC

\* ------------------------------------------------------------------ bounds

\* _process_file calls over one behaviour
MaxAttempts == 2
\* segments of one PipelineResult: 0..MaxSegs
MaxSegs == 1

\* the .wav paths of the watch directory
Paths == {"a.wav", "b.wav"}
\* str(e) of the exceptions collaborators raise
Msgs == {"m1", "m2"}
\* the watcher thread, and the threads that run _process_file besides it
Watchers == {"w"}
Pool == {"t1"}
Procs == Watchers \cup Pool

\* Python's None in a text column, in a DateTime/Float column
NoMsg == "None"
Null == 0

VARIABLES
    files,        \* paths that exist in the watch directory
    recs,         \* recordings table: recs[id] is the row with primary key id
    transcripts,  \* transcripts table: set of rows
    segments,     \* segments table: set of rows
    queue,        \* the watcher's processing_queue
    uploading,    \* uploads that wrote their file and have not committed yet
    pc,           \* where each thread is
    path,         \* file_path argument of the thread's _process_file
    rid,          \* recording.id held by the thread
    loaded,       \* attributes the thread's session loaded before it commits
    result,       \* PipelineResult returned by pipeline.process
    exc,          \* str(e) of the exception the thread caught
    attempts,     \* _process_file calls so far
    clock,        \* successful attempts so far (datetime.utcnow() stand-in)
    lastOk,       \* per recording id, clock of its latest successful attempt
    audio,        \* the decoded audio of one pipeline run and what its collaborators return
    stage,        \* where TranscriptionPipeline.process is
    out,          \* the PipelineResult of the run
    calls,        \* how often each collaborator was invoked
    tmp,          \* the temporary channel files that exist
    made,         \* the temporary channel files the run has created
    err,          \* str(e) of the exception process raised
    rows,         \* the transcript row and segment rows persisted from out
    orig,         \* rows as they were persisted
    swaps,        \* swap_speakers calls so far
    swapret,      \* what the last swap_speakers call returned
    batch,        \* where process_all_unprocessed is
    todo,         \* the files of unprocessed it has not handed to _process_file yet
    listed,       \* wav_files, what the glob returned
    before,       \* the listed files whose path had a done recording at that time
    handed,       \* the files it has handed to _process_file
    thread,       \* _watcher_thread: the worker it refers to, 0 for None
    stopev,       \* _watcher_stop_event is set
    wk,           \* where each worker thread created by pipeline_start is
    wq,           \* how many paths each worker's processing_queue holds
    hpc,          \* where each request handler is
    reqs,         \* pipeline start and stop requests so far
    created,      \* .wav files created in the watch directory so far
    given,        \* a diarization and a transcription handed to the mono labelling
    phase,        \* how far the labelling of given has come
    roles,        \* the speaker_map _label_speakers_smart returned
    scores,       \* twice scores[sp] of each candidate
    signals,      \* what each signal added to twice scores[sp]
    aligned,      \* the list _align_segments returned
    raw           \* raw_speaker of each aligned segment, "None" without overlap

\* the recording lifecycle
life == <<files, recs, transcripts, segments, queue, uploading, pc, path, rid,
          loaded, result, exc, attempts, clock, lastOk>>

\* one run of the pipeline and the transcript it leaves
pipe == <<audio, stage, out, calls, tmp, made, err>>
stored == <<rows, orig, swaps, swapret>>

\* process_all_unprocessed; the watcher control of the server
batchv == <<batch, todo, listed, before, handed>>
watchv == <<thread, stopev, wk, wq, hpc, reqs, created>>
labv == <<given, phase, roles, scores, signals, aligned, raw>>
apart == <<batchv, watchv, labv>>

\* what the lifecycle steps do not touch
outside == <<pipe, stored, apart>>

vars == <<life, outside>>

db == <<recs, transcripts, segments>>
ghost == <<attempts, clock, lastOk>>
locals == <<path, rid, loaded, result, exc>>

\* ------------------------------------------------------------------ tables

Statuses == {"pending", "processing", "done", "error"}

\* Recording(filename, filepath, status="pending"): the other columns NULL
NewRecording(p) ==
    [filepath |-> p, status |-> "pending", error_message |-> NoMsg,
     processed_at |-> Null, duration_seconds |-> Null]

RecIds == 1..Len(recs)

\* session.query(Recording).filter(Recording.filepath == p): ids of the rows
ByPath(p) == {i \in RecIds : recs[i].filepath = p}

\* .first() of that query: 0 for None
FirstByPath(p) == IF ByPath(p) = {} THEN 0 ELSE CHOOSE i \in ByPath(p) : \A j \in ByPath(p) : i <= j

\* session.query(Transcript).filter(Transcript.recording_id == r).all()
TranscriptsOf(r) == {t \in transcripts : t.recording_id = r}

SegmentsOf(r) == {s \in segments : \E t \in TranscriptsOf(r) : s.transcript_id = t.id}

MaxOf(S) == IF S = {} THEN 0 ELSE CHOOSE x \in S : \A y \in S : y <= x

\* INTEGER PRIMARY KEY without AUTOINCREMENT: one more than the largest id in use
NextTranscriptId == MaxOf({t.id : t \in transcripts}) + 1

\* audio duration the pipeline reports for the file at p
AudioDuration(p) == IF p = "a.wav" THEN 10 ELSE 20

\* the PipelineResult values pipeline.process may return for p
Results(p) == {[nsegs |-> n, duration |-> AudioDuration(p)] : n \in 0..MaxSegs}

NoPath == "None"
NoResult == [nsegs |-> 0, duration |-> Null]
NoLoaded == [status |-> "pending", error_message |-> NoMsg, processed_at |-> Null, old |-> {}]

\* what a thread goes back to when _process_file returns
Returned(t) == IF t \in Watchers THEN "idle" ELSE "free"

\* ------------------------------------------------------------------ Init

LifeInit ==
    /\ files = {}
    /\ recs = <<>>
    /\ transcripts = {}
    /\ segments = {}
    /\ queue = <<>>
    /\ uploading = {}
    /\ pc = [t \in Procs |-> Returned(t)]
    /\ path = [t \in Procs |-> NoPath]
    /\ rid = [t \in Procs |-> 0]
    /\ loaded = [t \in Procs |-> NoLoaded]
    /\ result = [t \in Procs |-> NoResult]
    /\ exc = [t \in Procs |-> NoMsg]
    /\ attempts = 0
    /\ clock = 0
    /\ lastOk = <<>>

\* no pipeline run: nothing decoded, nothing returned, no collaborator called
NoAudio == [channels |-> 0, mono |-> <<>>, left |-> <<>>, right |-> <<>>, dia |-> <<>>]
NoPipelineResult ==
    [segments |-> <<>>, full_text |-> "", num_speakers |-> 0, channel_mode |-> "None"]
NoCalls == [diarize |-> 0, transcribe |-> 0, classify |-> 0]

\* no transcript row
NoRows == [full_text |-> "None", segments |-> <<>>, present |-> FALSE]

PipeRest ==
    /\ audio = NoAudio
    /\ stage = "rest"
    /\ out = NoPipelineResult
    /\ calls = NoCalls
    /\ tmp = {}
    /\ made = {}
    /\ err = NoMsg

StoredRest ==
    /\ rows = NoRows
    /\ orig = NoRows
    /\ swaps = 0
    /\ swapret = "None"

\* process_all_unprocessed not called
BatchRest ==
    /\ batch = "rest"
    /\ todo = <<>>
    /\ listed = {}
    /\ before = {}
    /\ handed = {}

\* the request handlers of /api/pipeline/start and /api/pipeline/stop
Handlers == {"h1", "h2"}

\* the module globals of the server as it is imported: no watcher thread,
\* the stop event clear
WatchRest ==
    /\ thread = 0
    /\ stopev = FALSE
    /\ wk = <<>>
    /\ wq = <<>>
    /\ hpc = [h \in Handlers |-> "rest"]
    /\ reqs = 0
    /\ created = 0

\* nothing handed to the labelling
LabRest ==
    /\ given = [dia |-> <<>>, tr |-> <<>>]
    /\ phase = "rest"
    /\ roles = <<>>
    /\ scores = <<>>
    /\ signals = <<>>
    /\ aligned = <<>>
    /\ raw = <<>>

Init == LifeInit /\ PipeRest /\ StoredRest /\ BatchRest /\ WatchRest /\ LabRest

\* ------------------------------------------------------------ environment

\* a recordings table whose filepath column has no unique constraint
NoUniqueConstraint(p) == FALSE

\* the unique constraint on recordings.filepath refuses a second row for p
UniqueViolation(p) == ByPath(p) # {}

\* WavFileHandler.on_created: the observer puts the path in the queue; the
\* observer is stopped when the watcher thread has ended
OnCreated(p) == IF \E w \in Watchers : pc[w] # "raised" THEN Append(queue, p) ELSE queue

\* a .wav file appears in the watch directory
DropFile(p) ==
    /\ p \notin files
    /\ files' = files \cup {p}
    /\ queue' = OnCreated(p)
    /\ UNCHANGED <<db, uploading, pc, locals, ghost>>
    /\ UNCHANGED outside

\* upload_recording, up to the file being written: dest is a name that does
\* not exist in the watch directory
UploadWrite(p) ==
    /\ p \notin files
    /\ files' = files \cup {p}
    /\ queue' = OnCreated(p)
    /\ uploading' = uploading \cup {p}
    /\ UNCHANGED <<db, pc, locals, ghost>>
    /\ UNCHANGED outside

\* upload_recording, session.add(recording); session.commit(): an
\* IntegrityError leaves the table as it was
UploadCommit(p) ==
    /\ p \in uploading
    /\ uploading' = uploading \ {p}
    /\ IF UniqueViolation(p)
       THEN UNCHANGED <<recs, lastOk>>
       ELSE /\ recs' = Append(recs, NewRecording(p))
            /\ lastOk' = Append(lastOk, 0)
    /\ UNCHANGED <<files, queue, transcripts, segments, pc, locals, attempts, clock>>
    /\ UNCHANGED outside

\* ------------------------------------------------------- _process_file

\* a thread enters _process_file(p)
Begin(t, p) ==
    /\ attempts < MaxAttempts
    /\ attempts' = attempts + 1
    /\ pc' = [pc EXCEPT ![t] = "lookup"]
    /\ path' = [path EXCEPT ![t] = p]
    /\ UNCHANGED <<rid, loaded, result, exc>>

\* _process_file returns: the session is closed, its locals are gone
Return(t) ==
    /\ pc' = [pc EXCEPT ![t] = Returned(t)]
    /\ path' = [path EXCEPT ![t] = NoPath]
    /\ rid' = [rid EXCEPT ![t] = 0]
    /\ loaded' = [loaded EXCEPT ![t] = NoLoaded]
    /\ result' = [result EXCEPT ![t] = NoResult]
    /\ exc' = [exc EXCEPT ![t] = NoMsg]

\* an early return that no row takes
SkipsNothing(row) == FALSE

\* the early return of _process_file: the row it found is done
SkipsExisting(row) == row.status = "done"

\* the attributes of a row a session holds once it has loaded it
Snapshot(row, old) ==
    [status |-> row.status, error_message |-> row.error_message,
     processed_at |-> row.processed_at, old |-> old]

\* lines 66-70 and the branch of line 72
PF_Lookup(t) ==
    /\ pc[t] = "lookup"
    /\ LET e == FirstByPath(path[t]) IN
       IF e # 0 /\ SkipsExisting(recs[e])
       THEN Return(t)
       ELSE /\ pc' = [pc EXCEPT ![t] = IF e # 0 THEN "reset" ELSE "create"]
            /\ rid' = [rid EXCEPT ![t] = e]
            /\ loaded' = [loaded EXCEPT ![t] = IF e # 0 THEN Snapshot(recs[e], {}) ELSE NoLoaded]
            /\ UNCHANGED <<path, result, exc>>
    /\ UNCHANGED <<files, db, queue, uploading, ghost>>
    /\ UNCHANGED outside

\* the columns lines 75-76 assign to the existing row
ResetRow(row, was) ==
    [row EXCEPT !.status = IF was.status = "pending" THEN @ ELSE "pending",
                !.error_message = IF was.error_message = NoMsg THEN @ ELSE NoMsg]

\* lines 74-77: the existing row re-enters pending
PF_Reset(t) ==
    /\ pc[t] = "reset"
    /\ recs' = [recs EXCEPT ![rid[t]] = ResetRow(@, loaded[t])]
    /\ pc' = [pc EXCEPT ![t] = "start"]
    /\ loaded' = [loaded EXCEPT ![t] = NoLoaded]
    /\ UNCHANGED <<files, transcripts, segments, queue, uploading, path, rid, result, exc, ghost>>
    /\ UNCHANGED outside

\* lines 79-85: a new row; the commit raises IntegrityError, outside the
\* try block, when a row for the path was committed since the lookup
PF_Create(t) ==
    /\ pc[t] = "create"
    /\ IF UniqueViolation(path[t])
       THEN /\ pc' = [pc EXCEPT ![t] = "raised"]
            /\ path' = [path EXCEPT ![t] = NoPath]
            /\ UNCHANGED <<recs, lastOk, rid>>
       ELSE /\ recs' = Append(recs, NewRecording(path[t]))
            /\ lastOk' = Append(lastOk, 0)
            /\ rid' = [rid EXCEPT ![t] = Len(recs) + 1]
            /\ pc' = [pc EXCEPT ![t] = "start"]
            /\ UNCHANGED path
    /\ UNCHANGED <<files, transcripts, segments, queue, uploading, loaded, result, exc,
                   attempts, clock>>
    /\ UNCHANGED outside

\* lines 89-90
PF_Start(t) ==
    /\ pc[t] = "start"
    /\ recs' = [recs EXCEPT ![rid[t]].status = "processing"]
    /\ pc' = [pc EXCEPT ![t] = "pipeline"]
    /\ UNCHANGED <<files, transcripts, segments, queue, uploading, locals, ghost>>
    /\ UNCHANGED outside

\* lines 92-93: pipeline.process returns a result or raises
PF_Pipeline(t) ==
    /\ pc[t] = "pipeline"
    /\ \/ \E r \in Results(path[t]) :
            /\ result' = [result EXCEPT ![t] = r]
            /\ pc' = [pc EXCEPT ![t] = "persist"]
            /\ UNCHANGED exc
       \/ \E m \in Msgs :
            /\ exc' = [exc EXCEPT ![t] = m]
            /\ pc' = [pc EXCEPT ![t] = "except"]
            /\ UNCHANGED result
    /\ UNCHANGED <<files, db, queue, uploading, path, rid, loaded, ghost>>
    /\ UNCHANGED outside

\* the Transcript row of lines 95-101, the Segment rows of lines 103-112
NewTranscript(r, stamp) == [id |-> NextTranscriptId, recording_id |-> r, attempt |-> stamp]
NewSegments(res) == {[transcript_id |-> NextTranscriptId, k |-> k] : k \in 1..res.nsegs}

\* lines 114-116
DoneRow(row, res, stamp) ==
    [row EXCEPT !.status = "done", !.duration_seconds = res.duration, !.processed_at = stamp]

\* lines 95-117: the transcript, its segments and the done status in one
\* commit; or the flush/commit raises and nothing is written
PF_Persist(t) ==
    /\ pc[t] = "persist"
    /\ \/ /\ transcripts' = transcripts \cup {NewTranscript(rid[t], clock + 1)}
          /\ segments' = segments \cup NewSegments(result[t])
          /\ recs' = [recs EXCEPT ![rid[t]] = DoneRow(@, result[t], clock + 1)]
          /\ clock' = clock + 1
          /\ lastOk' = [lastOk EXCEPT ![rid[t]] = clock + 1]
          /\ Return(t)
       \/ \E m \in Msgs :
          /\ exc' = [exc EXCEPT ![t] = m]
          /\ pc' = [pc EXCEPT ![t] = "except"]
          /\ result' = [result EXCEPT ![t] = NoResult]
          /\ UNCHANGED <<db, clock, lastOk, path, rid, loaded>>
    /\ UNCHANGED <<files, queue, uploading, attempts>>
    /\ UNCHANGED outside

\* an except block that sets the status and drops the message
ErrorRowStatusOnly(row, m) == [row EXCEPT !.status = "error"]

\* lines 125-126
ErrorRow(row, m) == [row EXCEPT !.status = "error", !.error_message = m]

\* lines 120-131: rollback, re-fetch, record the error, close
PF_Except(t) ==
    /\ pc[t] = "except"
    /\ recs' = [recs EXCEPT ![rid[t]] = ErrorRow(@, exc[t])]
    /\ Return(t)
    /\ UNCHANGED <<files, transcripts, segments, queue, uploading, attempts, clock, lastOk>>
    /\ UNCHANGED outside

ProcessFile(t) ==
    \/ PF_Lookup(t)
    \/ PF_Reset(t)
    \/ PF_Create(t)
    \/ PF_Start(t)
    \/ PF_Pipeline(t)
    \/ PF_Persist(t)
    \/ PF_Except(t)

\* ------------------------------------------------------------ callers

\* no other thread is inside _process_file or reprocess_recording
Alone(t) == \A u \in Procs \ {t} : pc[u] \in {"idle", "free", "raised"}

\* the watcher loop: processing_queue.get, then _process_file(file_path)
WatcherGet(t) ==
    /\ t \in Watchers
    /\ pc[t] = "idle"
    /\ queue # <<>>
    /\ queue' = Tail(queue)
    /\ Begin(t, Head(queue))
    /\ UNCHANGED <<files, db, uploading, clock, lastOk>>
    /\ UNCHANGED outside

\* process_single_file, process_all_unprocessed: _process_file on a file
\* of the directory
ProcessSingleFile(t, p) ==
    /\ t \in Pool
    /\ pc[t] = "free"
    /\ p \in files
    /\ Begin(t, p)
    /\ UNCHANGED <<files, db, queue, uploading, clock, lastOk>>
    /\ UNCHANGED outside

\* reprocess_recording, lines 291-302: the row and its transcripts are read
ReprocessRead(t, r) ==
    /\ t \in Pool
    /\ pc[t] = "free"
    /\ r \in RecIds
    /\ attempts < MaxAttempts
    /\ pc' = [pc EXCEPT ![t] = "rp_commit"]
    /\ rid' = [rid EXCEPT ![t] = r]
    /\ loaded' = [loaded EXCEPT ![t] = Snapshot(recs[r], {x.id : x \in TranscriptsOf(r)})]
    /\ UNCHANGED <<files, db, queue, uploading, path, result, exc, attempts, clock, lastOk>>
    /\ UNCHANGED outside

\* session.delete(t) of lines 303-304: the transcript rows with the ids
\* read, and by the relationship's cascade their segments
DeleteTranscripts(ids) == {x \in transcripts : x.id \notin ids}
DeleteSegments(ids) == {s \in segments : s.transcript_id \notin ids}

\* lines 306-308
ReprocessRow(row, was) ==
    [row EXCEPT !.status = IF was.status = "pending" THEN @ ELSE "pending",
                !.error_message = IF was.error_message = NoMsg THEN @ ELSE NoMsg,
                !.processed_at = IF was.processed_at = Null THEN @ ELSE Null]

\* lines 303-319: one commit deletes the transcripts read and resets the
\* row, then the background thread starts _process_file(filepath); a
\* DELETE that matches no row raises StaleDataError and rolls back
ReprocessCommit(t) ==
    /\ pc[t] = "rp_commit"
    /\ IF loaded[t].old \subseteq {x.id : x \in transcripts}
       THEN /\ transcripts' = DeleteTranscripts(loaded[t].old)
            /\ segments' = DeleteSegments(loaded[t].old)
            /\ recs' = [recs EXCEPT ![rid[t]] = ReprocessRow(@, loaded[t])]
            /\ attempts' = attempts + 1
            /\ pc' = [pc EXCEPT ![t] = "lookup"]
            /\ path' = [path EXCEPT ![t] = recs[rid[t]].filepath]
       ELSE /\ pc' = [pc EXCEPT ![t] = "free"]
            /\ UNCHANGED <<db, attempts, path>>
    /\ rid' = [rid EXCEPT ![t] = 0]
    /\ loaded' = [loaded EXCEPT ![t] = NoLoaded]
    /\ UNCHANGED <<files, queue, uploading, result, exc, clock, lastOk>>
    /\ UNCHANGED outside

\* ------------------------------------------------------ specifications

Environment ==
    \/ \E p \in Paths : DropFile(p)
    \/ \E p \in Paths : UploadWrite(p)
    \/ \E p \in Paths : UploadCommit(p)

\* every thread runs freely: the watcher loop, direct processing and
\* reprocess requests interleave
Next ==
    \/ Environment
    \/ \E t \in Procs : WatcherGet(t)
    \/ \E t \in Procs, p \in Paths : ProcessSingleFile(t, p)
    \/ \E t \in Procs, r \in 1..Cardinality(Paths) : ReprocessRead(t, r)
    \/ \E t \in Procs : ReprocessCommit(t)
    \/ \E t \in Procs : ProcessFile(t)

Spec == Init /\ [][Next]_vars

\* a single worker: a thread enters _process_file or reprocess_recording
\* only while no other thread is inside one
SingleNext ==
    \/ Environment
    \/ \E t \in Procs : Alone(t) /\ WatcherGet(t)
    \/ \E t \in Procs, p \in Paths : Alone(t) /\ ProcessSingleFile(t, p)
    \/ \E t \in Procs, r \in 1..Cardinality(Paths) : Alone(t) /\ ReprocessRead(t, r)
    \/ \E t \in Procs : ReprocessCommit(t)
    \/ \E t \in Procs : ProcessFile(t)

SingleSpec == Init /\ [][SingleNext]_vars

\* --------------------------------------------------------- query layer

\* get_transcript: .first() of the transcripts of the recording, the row
\* with the smallest id; 0 when there is none
FirstTranscriptId(r) ==
    IF TranscriptsOf(r) = {} THEN 0
    ELSE CHOOSE i \in {x.id : x \in TranscriptsOf(r)} : \A x \in TranscriptsOf(r) : i <= x.id

\* the attempt whose text get_transcript returns for the recording
ReturnedAttempt(r) ==
    IF FirstTranscriptId(r) = 0 THEN 0
    ELSE (CHOOSE x \in TranscriptsOf(r) : x.id = FirstTranscriptId(r)).attempt

\* ------------------------------------------------- pipeline: the data

\* longest segment list a collaborator returns for a mono file
MaxLen == 2
\* longest segment list whisper returns for one channel of a stereo file
MaxChannelLen == 1
\* largest channel count of a decoded audio
MaxChannels == 3

\* segment texts: a short customer answer, and a sales sentence
Texts == {"tak", "rabat i gratis w promocji dla pana"}

\* a sales sentence that says one of its phrases twice
SalesPitch == "rabat i gratis w promocji, rabat dla pana i dla pani"

\* a customer's sentence of seven words in which no pattern is found
Hesitation == "nie wiem, to jest dla mnie trudne"

\* the _AGENT_PHRASES patterns that re.search finds in the text
AgentPhrases(text) ==
    IF text \in {"rabat i gratis w promocji dla pana", SalesPitch}
    THEN {"w promocji", "rabat", "gratis"}
    ELSE {}

\* how many times the pattern occurs in the text
Occurrences(text, pattern) ==
    IF pattern \notin AgentPhrases(text) THEN 0
    ELSE IF text = SalesPitch /\ pattern = "rabat" THEN 2
    ELSE 1

\* whether a _CUSTOMER_SHORT_RESPONSES pattern matches the text
ShortResponse(text) == text = "tak"

\* len(text.split())
Words(text) ==
    CASE text = "tak" -> 1
      [] text = SalesPitch -> 11
      [] OTHER -> 7

\* _avg_word_confidence: a percentage, Null without word timestamps
AvgWordConfidence(text) == IF text = "tak" THEN Null ELSE 90

\* start and end of a diarization segment, of a transcription segment
Intervals == {<<0, 2>>, <<1, 3>>, <<3, 4>>}
SpeechIntervals == {<<0, 2>>, <<3, 4>>}

\* speaker tags of the diarizer
Tags == {"SPEAKER_00", "SPEAKER_01"}

TranscriptionSegments ==
    {[text |-> x, start |-> iv[1], end |-> iv[2]] : x \in Texts, iv \in SpeechIntervals}

DiarizationSegments ==
    {[speaker |-> g, start |-> iv[1], end |-> iv[2]] : g \in Tags, iv \in Intervals}

SeqsUpTo(S, n) == UNION {[1..k -> S] : k \in 0..n}

\* whisper.transcribe returns the segments in the order the model yields them
Transcriptions == SeqsUpTo(TranscriptionSegments, MaxLen)

ChannelTranscriptions == SeqsUpTo(TranscriptionSegments, MaxChannelLen)

\* diarize sorts its segments by start before it returns them
Diarizations ==
    {d \in SeqsUpTo(DiarizationSegments, MaxLen) :
        \A i, j \in DOMAIN d : i < j => d[i].start <= d[j].start}

\* a decoded audio with what the collaborators return for it
Audios ==
    {[channels |-> 1, mono |-> m, left |-> <<>>, right |-> <<>>, dia |-> d] :
        m \in Transcriptions, d \in Diarizations}
    \cup
    {[channels |-> n, mono |-> <<>>, left |-> l, right |-> r, dia |-> <<>>] :
        n \in 2..MaxChannels, l \in ChannelTranscriptions, r \in ChannelTranscriptions}

\* ---------------------------------------------- pipeline: the functions

Min2(a, b) == IF a <= b THEN a ELSE b
Max2(a, b) == IF a >= b THEN a ELSE b

RECURSIVE SumOf(_, _)
SumOf(f, S) ==
    IF S = {} THEN 0
    ELSE LET x == CHOOSE y \in S : TRUE IN f[x] + SumOf(f, S \ {x})

MinOf(S) == CHOOSE x \in S : \A y \in S : x <= y

\* the difference without the clamp at zero
SignedOverlap(a_start, a_end, b_start, b_end) ==
    Min2(a_end, b_end) - Max2(a_start, b_start)

\* _overlap
Overlap(a_start, a_end, b_start, b_end) ==
    Max2(0, Min2(a_end, b_end) - Max2(a_start, b_start))

\* the overlap of tseg with each diarization segment
Ov(tseg, diarization) ==
    [i \in DOMAIN diarization |->
        Overlap(tseg.start, tseg.end, diarization[i].start, diarization[i].end)]

\* the keys of speaker_overlap: tags with a segment of positive overlap
OverlapKeys(tseg, diarization) ==
    LET ov == Ov(tseg, diarization)
    IN {diarization[i].speaker : i \in {j \in DOMAIN diarization : ov[j] > 0}}

\* speaker_overlap[sp]
SpeakerOverlap(tseg, diarization, sp) ==
    SumOf(Ov(tseg, diarization),
          {i \in DOMAIN diarization : diarization[i].speaker = sp})

\* an order in which the key inserted last comes first
LastKeyFirst(tseg, diarization, sp) ==
    0 - MinOf({i \in DOMAIN diarization :
                  /\ diarization[i].speaker = sp
                  /\ Overlap(tseg.start, tseg.end, diarization[i].start, diarization[i].end) > 0})

\* where sp enters speaker_overlap: dict keys keep insertion order
KeyOrder(tseg, diarization, sp) ==
    LET ov == Ov(tseg, diarization)
    IN MinOf({i \in DOMAIN diarization : diarization[i].speaker = sp /\ ov[i] > 0})

\* max(speaker_overlap, key=speaker_overlap.get): the first key with the
\* largest value
BestSpeaker(tseg, diarization) ==
    LET keys == OverlapKeys(tseg, diarization)
        speaker_overlap == [sp \in keys |-> SpeakerOverlap(tseg, diarization, sp)]
        order == [sp \in keys |-> KeyOrder(tseg, diarization, sp)]
    IN CHOOSE sp \in keys :
           \A q \in keys :
               \/ speaker_overlap[sp] > speaker_overlap[q]
               \/ speaker_overlap[sp] = speaker_overlap[q] /\ order[sp] <= order[q]

\* a fallback that takes the other role
NoOverlapCustomer == "customer"

\* the label of a segment no diarization segment overlaps
NoOverlapLabel == "agent"

\* a lookup whose default is the label of the segments without overlap
MapGetFallback(speaker_map, raw_speaker) ==
    IF raw_speaker \in DOMAIN speaker_map THEN speaker_map[raw_speaker] ELSE NoOverlapLabel

\* speaker_map.get(raw_speaker, "customer")
MapGet(speaker_map, raw_speaker) ==
    IF raw_speaker \in DOMAIN speaker_map THEN speaker_map[raw_speaker] ELSE "customer"

AlignedSegment(speaker, seg) ==
    [speaker |-> speaker, text |-> seg.text, start |-> seg.start, end |-> seg.end,
     confidence |-> AvgWordConfidence(seg.text)]

\* an aligner that returns the segments last to first
AlignReversed(transcription, diarization, speaker_map) ==
    [i \in DOMAIN transcription |->
        AlignedSegment(NoOverlapLabel, transcription[Len(transcription) + 1 - i])]

\* _align_segments
AlignSegments(transcription, diarization, speaker_map) ==
    [i \in DOMAIN transcription |->
        AlignedSegment(
            IF OverlapKeys(transcription[i], diarization) # {}
            THEN MapGet(speaker_map, BestSpeaker(transcription[i], diarization))
            ELSE NoOverlapLabel,
            transcription[i])]

\* the keys of speaking_time
DiaSpeakers(diarization) == {diarization[i].speaker : i \in DOMAIN diarization}

\* speaking_time[sp]
SpeakingTime(diarization, sp) ==
    SumOf([i \in DOMAIN diarization |-> diarization[i].end - diarization[i].start],
          {i \in DOMAIN diarization : diarization[i].speaker = sp})

\* where sp enters speaking_time and first_appearance
FirstIndex(diarization, sp) ==
    MinOf({i \in DOMAIN diarization : diarization[i].speaker = sp})

\* first_appearance[sp]
FirstAppearance(diarization, sp) == diarization[FirstIndex(diarization, sp)].start

\* a ranking with the shortest speaking time first
ShortestFirst(diarization, a, b) ==
    \/ SpeakingTime(diarization, a) < SpeakingTime(diarization, b)
    \/ /\ SpeakingTime(diarization, a) = SpeakingTime(diarization, b)
       /\ FirstIndex(diarization, a) < FirstIndex(diarization, b)

\* a comes before b in sorted(speaking_time, key=speaking_time.get,
\* reverse=True): the sort is stable
RankedBefore(diarization, a, b) ==
    \/ SpeakingTime(diarization, a) > SpeakingTime(diarization, b)
    \/ /\ SpeakingTime(diarization, a) = SpeakingTime(diarization, b)
       /\ FirstIndex(diarization, a) < FirstIndex(diarization, b)

\* the tag with n tags ranked before it
RankedAt(diarization, n) ==
    CHOOSE a \in DiaSpeakers(diarization) :
        Cardinality({b \in DiaSpeakers(diarization) : RankedBefore(diarization, b, a)}) = n

\* top_speakers
TopSpeakers(diarization) ==
    [k \in 1..Min2(2, Cardinality(DiaSpeakers(diarization))) |-> RankedAt(diarization, k - 1)]

\* the transcription segments whose text goes to speaker_texts[sp]
Attributed(diarization, transcription, sp) ==
    {i \in DOMAIN transcription :
        /\ OverlapKeys(transcription[i], diarization) # {}
        /\ BestSpeaker(transcription[i], diarization) = sp}

\* _count_phrase_matches(all_text, _AGENT_PHRASES) on the joined texts of
\* speaker_texts[sp]: the patterns found, each counted once
AgentPhraseCount(transcription, texts) ==
    Cardinality(UNION {AgentPhrases(transcription[i].text) : i \in texts})

ShortResponses(transcription, texts) ==
    Cardinality({i \in texts : ShortResponse(transcription[i].text)})

ShortSegments(transcription, texts) ==
    Cardinality({i \in texts : Words(transcription[i].text) < 5})

TotalWords(transcription, texts) ==
    SumOf([i \in DOMAIN transcription |-> Words(transcription[i].text)], texts)

TotalTime(diarization) ==
    SumOf([i \in DOMAIN diarization |-> diarization[i].end - diarization[i].start],
          DOMAIN diarization)

\* _count_distinct_phrase_matches(all_text, _AGENT_PHRASES): the same sum
\* as _count_phrase_matches
DistinctAgentPhrases(transcription, texts) ==
    Cardinality(UNION {AgentPhrases(transcription[i].text) : i \in texts})

\* what each signal of lines 337-378 adds to scores[sp], in halves
Signals(diarization, transcription, sp) ==
    LET texts == Attributed(diarization, transcription, sp) IN
    [phrases |-> 6 * AgentPhraseCount(transcription, texts),
     responses |-> 0 - 4 * ShortResponses(transcription, texts),
     shorts |-> 0 - 3 * ShortSegments(transcription, texts),
     time |-> IF 20 * SpeakingTime(diarization, sp) > 11 * TotalTime(diarization)
              THEN 4 ELSE 0,
     words |-> IF TotalWords(transcription, texts) > 8 * Cardinality(texts) THEN 2 ELSE 0,
     diversity |-> IF DistinctAgentPhrases(transcription, texts) >= 3 THEN 4 ELSE 0,
     first |-> IF FirstAppearance(diarization, sp)
                     = MinOf({FirstAppearance(diarization, q) : q \in DiaSpeakers(diarization)})
               THEN 1 ELSE 0]

\* the signals of each candidate, in the order of top_speakers
CandidateSignals(diarization, transcription) ==
    LET top == TopSpeakers(diarization)
    IN [k \in DOMAIN top |->
           [tag |-> top[k]] @@ Signals(diarization, transcription, top[k])]

\* the signals added up
SumSignals(g) == g.phrases + g.responses + g.shorts + g.time + g.words + g.diversity + g.first

\* twice scores[sp]
Score2(diarization, transcription, sp) == SumSignals(Signals(diarization, transcription, sp))

\* an only speaker who is the agent whatever was said
SingleAlwaysAgent(diarization, transcription, sp) == "agent"

\* lines 385-396: the label of the only speaker
SingleSpeakerLabel(diarization, transcription, sp) ==
    LET texts == Attributed(diarization, transcription, sp) IN
    IF /\ AgentPhraseCount(transcription, texts) = 0
       /\ 2 * ShortSegments(transcription, texts) > Cardinality(texts)
    THEN "customer"
    ELSE "agent"

\* a labelling in which the first candidate needs the strictly higher score
LabelStrictly(diarization, transcription) ==
    IF diarization = <<>> THEN <<>>
    ELSE LET top == TopSpeakers(diarization) IN
         IF Len(top) = 1
         THEN [sp \in {top[1]} |-> SingleSpeakerLabel(diarization, transcription, sp)]
         ELSE LET first == Score2(diarization, transcription, top[1])
                               > Score2(diarization, transcription, top[2])
              IN [sp \in {top[1], top[2]} |->
                     IF (sp = top[1]) = first THEN "agent" ELSE "customer"]

\* _label_speakers_smart: the speaker_map, a function on its keys
LabelSpeakersSmart(diarization, transcription) ==
    IF diarization = <<>> THEN <<>>
    ELSE LET top == TopSpeakers(diarization) IN
         IF Len(top) = 1
         THEN [sp \in {top[1]} |-> SingleSpeakerLabel(diarization, transcription, sp)]
         ELSE LET first == Score2(diarization, transcription, top[1])
                               >= Score2(diarization, transcription, top[2])
              IN [sp \in {top[1], top[2]} |->
                     IF (sp = top[1]) = first THEN "agent" ELSE "customer"]

\* where list.sort(key=start) puts element i: the sort is stable
SortedPosition(segs, i) ==
    1 + Cardinality({j \in DOMAIN segs :
                        \/ segs[j].start < segs[i].start
                        \/ segs[j].start = segs[i].start /\ j < i})

\* segments.sort(key=lambda s: s.start)
SortByStart(segs) ==
    [k \in DOMAIN segs |-> segs[CHOOSE i \in DOMAIN segs : SortedPosition(segs, i) = k]]

\* str.capitalize of a speaker label
Capitalize(label) ==
    CASE label = "agent" -> "Agent"
      [] label = "customer" -> "Customer"
      [] OTHER -> label

\* "\n".join(lines)
RECURSIVE JoinLines(_)
JoinLines(lines) ==
    IF lines = <<>> THEN ""
    ELSE IF Len(lines) = 1 THEN lines[1]
    ELSE lines[1] \o "\n" \o JoinLines(Tail(lines))

\* _build_full_text: one line per segment, in the order of the list
BuildFullText(segs) ==
    JoinLines([i \in DOMAIN segs |-> "[" \o Capitalize(segs[i].speaker) \o "] " \o segs[i].text])

\* the channels taken the other way round
FlippedChannelLabel(ch) == IF ch = 0 THEN "customer" ELSE "agent"

\* the speaker of the segments of a channel
ChannelLabel(ch) == IF ch = 0 THEN "agent" ELSE "customer"

\* lines 449-474: the segments of both channels, sorted by start
StereoSegments(agent_result, customer_result) ==
    SortByStart([i \in DOMAIN agent_result |-> AlignedSegment(ChannelLabel(0), agent_result[i])]
                \o [i \in DOMAIN customer_result |->
                       AlignedSegment(ChannelLabel(1), customer_result[i])])

\* the PipelineResult of _run_stereo_pipeline
StereoResult(agent_result, customer_result) ==
    [segments |-> StereoSegments(agent_result, customer_result),
     full_text |-> BuildFullText(StereoSegments(agent_result, customer_result)),
     num_speakers |-> 2,
     channel_mode |-> "stereo"]

\* the PipelineResult of _run_mono_pipeline
MonoResult(diarization, transcription) ==
    [segments |-> AlignSegments(transcription, diarization,
                                LabelSpeakersSmart(diarization, transcription)),
     full_text |-> BuildFullText(AlignSegments(transcription, diarization,
                                               LabelSpeakersSmart(diarization, transcription))),
     num_speakers |-> Cardinality(DiaSpeakers(diarization)),
     channel_mode |-> "mono"]

\* ------------------------------------------- pipeline: one run of process

\* the files _split_stereo exports into the temporary directory
TempFiles == {"channel_left_agent.wav", "channel_right_customer.wav"}

\* a directory that is left behind with its files
KeepFiles(dir) == dir

\* leaving the with block of tempfile.TemporaryDirectory removes the
\* directory and the files in it
Cleanup(dir) == {}

\* a recording whose attempt is at line 93, about to run the pipeline
PipeInit ==
    /\ files = {"a.wav"}
    /\ recs = <<[NewRecording("a.wav") EXCEPT !.status = "processing"]>>
    /\ transcripts = {}
    /\ segments = {}
    /\ queue = <<>>
    /\ uploading = {}
    /\ pc = [t \in Procs |-> Returned(t)]
    /\ path = [t \in Procs |-> NoPath]
    /\ rid = [t \in Procs |-> 0]
    /\ loaded = [t \in Procs |-> NoLoaded]
    /\ result = [t \in Procs |-> NoResult]
    /\ exc = [t \in Procs |-> NoMsg]
    /\ attempts = 1
    /\ clock = 0
    /\ lastOk = <<0>>
    /\ audio \in Audios
    /\ stage = "load"
    /\ out = NoPipelineResult
    /\ calls = NoCalls
    /\ tmp = {}
    /\ made = {}
    /\ err = NoMsg
    /\ StoredRest
    /\ BatchRest
    /\ WatchRest
    /\ LabRest

\* str(e) of what a collaborator of the pipeline raises
PipeMsgs == {"m1"}

\* process raises m: the exception leaves every with block on its way
Raise(m) ==
    /\ stage' = "failed"
    /\ err' = m
    /\ tmp' = Cleanup(tmp)
    /\ UNCHANGED <<audio, out>>

\* lines 587-596: the audio is decoded and routed on its channel count
Process ==
    /\ stage = "load"
    /\ \/ /\ stage' = IF audio.channels >= 2 THEN "split" ELSE "diarize"
          /\ UNCHANGED <<audio, out, tmp, err>>
       \/ \E m \in PipeMsgs : Raise(m)
    /\ UNCHANGED <<life, calls, made, stored>>
    /\ UNCHANGED apart

\* _split_stereo inside the with block of line 437: ValueError unless the
\* audio has two channels; else the two exports, the second of which may fail
SplitStereo ==
    /\ stage = "split"
    /\ IF audio.channels # 2
       THEN Raise("ValueError") /\ UNCHANGED made
       ELSE \/ /\ tmp' = TempFiles
               /\ made' = TempFiles
               /\ stage' = "left"
               /\ UNCHANGED <<audio, out, err>>
            \/ \E m \in PipeMsgs :
               /\ made' = {"channel_left_agent.wav"}
               /\ Raise(m)
    /\ UNCHANGED <<life, calls, stored>>
    /\ UNCHANGED apart

\* line 443
TranscribeLeft ==
    /\ stage = "left"
    /\ calls' = [calls EXCEPT !.transcribe = @ + 1]
    /\ \/ stage' = "right" /\ UNCHANGED <<audio, out, tmp, err>>
       \/ \E m \in PipeMsgs : Raise(m)
    /\ UNCHANGED <<life, made, stored>>
    /\ UNCHANGED apart

\* lines 446-486: the second transcription, the end of the with block, the
\* result
TranscribeRight ==
    /\ stage = "right"
    /\ calls' = [calls EXCEPT !.transcribe = @ + 1]
    /\ \/ /\ tmp' = Cleanup(tmp)
          /\ out' = StereoResult(audio.left, audio.right)
          /\ stage' = "done"
          /\ UNCHANGED <<audio, err>>
       \/ \E m \in PipeMsgs : Raise(m)
    /\ UNCHANGED <<life, made, stored>>
    /\ UNCHANGED apart

\* line 504
Diarize ==
    /\ stage = "diarize"
    /\ calls' = [calls EXCEPT !.diarize = @ + 1]
    /\ \/ stage' = "transcribe" /\ UNCHANGED <<audio, out, tmp, err>>
       \/ \E m \in PipeMsgs : Raise(m)
    /\ UNCHANGED <<life, made, stored>>
    /\ UNCHANGED apart

\* lines 508-527: the transcription, then the classifier and the aligner
TranscribeMono ==
    /\ stage = "transcribe"
    /\ \/ /\ calls' = [calls EXCEPT !.transcribe = @ + 1, !.classify = @ + 1]
          /\ out' = MonoResult(audio.dia, audio.mono)
          /\ stage' = "done"
          /\ UNCHANGED <<audio, tmp, err>>
       \/ /\ calls' = [calls EXCEPT !.transcribe = @ + 1]
          /\ \E m \in PipeMsgs : Raise(m)
    /\ UNCHANGED <<life, made, stored>>
    /\ UNCHANGED apart

\* ------------------------------------- the persisted transcript, the swap

\* swap_speakers calls that find a transcript, over one behaviour
MaxSwaps == 2

\* the Segment row of lines 104-111
SegmentRow(seg) ==
    [speaker_label |-> seg.speaker, text |-> seg.text, start_time |-> seg.start,
     end_time |-> seg.end, confidence |-> seg.confidence]

\* the Transcript row of lines 95-99 with its Segment rows, in id order
PersistedRows(pres) ==
    [full_text |-> pres.full_text,
     segments |-> [i \in DOMAIN pres.segments |-> SegmentRow(pres.segments[i])],
     present |-> TRUE]

\* _process_file lines 95-117 on the result of the run
Persist ==
    /\ stage = "done"
    /\ stage' = "persisted"
    /\ rows' = PersistedRows(out)
    /\ orig' = PersistedRows(out)
    /\ recs' = [recs EXCEPT ![1] = DoneRow(@, [duration |-> AudioDuration(@.filepath)], 1)]
    /\ UNCHANGED <<files, transcripts, segments, queue, uploading, pc, path, rid, loaded,
                   result, exc, attempts, clock, lastOk>>
    /\ UNCHANGED <<audio, out, calls, tmp, made, err, swaps, swapret>>
    /\ UNCHANGED apart

\* a swap that makes every speaker the agent
AllAgent(label) == "agent"

\* swap_map.get(label, label)
SwapLabel(label) ==
    CASE label = "agent" -> "customer"
      [] label = "customer" -> "agent"
      [] OTHER -> label

\* s.start_time or 0
StartOrZero(row) == IF row.start_time = Null THEN 0 ELSE row.start_time

\* where sorted(segments, key=start_time or 0) puts row i
OrderedPosition(srows, i) ==
    1 + Cardinality({j \in DOMAIN srows :
                        \/ StartOrZero(srows[j]) < StartOrZero(srows[i])
                        \/ StartOrZero(srows[j]) = StartOrZero(srows[i]) /\ j < i})

Ordered(srows) ==
    [k \in DOMAIN srows |-> srows[CHOOSE i \in DOMAIN srows : OrderedPosition(srows, i) = k]]

\* lines 228-230
SwappedSegments(srows) ==
    [i \in DOMAIN srows |-> [srows[i] EXCEPT !.speaker_label = SwapLabel(@)]]

\* lines 232-238
RebuiltText(srows) ==
    JoinLines([i \in DOMAIN srows |->
                  "[" \o Capitalize(Ordered(srows)[i].speaker_label) \o "] "
                  \o Ordered(srows)[i].text])

\* swap_speakers: False without a transcript; else every label swapped and
\* full_text rebuilt
SwapSpeakers ==
    /\ stage \in {"persisted", "failed"}
    /\ swaps < MaxSwaps
    /\ IF ~rows.present
       THEN swapret' = "False" /\ UNCHANGED <<rows, swaps>>
       ELSE /\ swapret' = "True"
            /\ swaps' = swaps + 1
            /\ rows' = [rows EXCEPT !.segments = SwappedSegments(@),
                                    !.full_text = RebuiltText(SwappedSegments(rows.segments))]
    /\ UNCHANGED <<life, pipe, orig>>
    /\ UNCHANGED apart

PipeNext ==
    \/ Process
    \/ SplitStereo
    \/ TranscribeLeft
    \/ TranscribeRight
    \/ Diarize
    \/ TranscribeMono
    \/ Persist
    \/ SwapSpeakers

PipeSpec == PipeInit /\ [][PipeNext]_vars

\* ------------------------------------------------ process_all_unprocessed

\* a .wav file outside the watch directory that has the name of one inside
Elsewhere == {"x/a.wav"}

\* Path.name, the last component of the path: what Recording.filename holds
Filename(p) == IF p = "x/a.wav" THEN "a.wav" ELSE p

\* the order of sorted() on the paths of the directory
PathRank(p) == IF p = "a.wav" THEN 1 ELSE 2

\* the thread of the command line
Cli == "t1"

\* the command line starts on a directory that holds some .wav files and on
\* an empty database
BatchInit ==
    /\ files \in SUBSET Paths
    /\ recs = <<>>
    /\ transcripts = {}
    /\ segments = {}
    /\ queue = <<>>
    /\ uploading = {}
    /\ pc = [t \in Procs |-> Returned(t)]
    /\ path = [t \in Procs |-> NoPath]
    /\ rid = [t \in Procs |-> 0]
    /\ loaded = [t \in Procs |-> NoLoaded]
    /\ result = [t \in Procs |-> NoResult]
    /\ exc = [t \in Procs |-> NoMsg]
    /\ attempts = 0
    /\ clock = 0
    /\ lastOk = <<>>
    /\ PipeRest
    /\ StoredRest
    /\ BatchRest
    /\ WatchRest
    /\ LabRest

\* process_single_file(p), the process command, on a file inside or outside
\* the watch directory, before process_all_unprocessed is called
ProcessOne(p) ==
    /\ batch = "rest"
    /\ pc[Cli] = "free"
    /\ p \in files \cup Elsewhere
    /\ Begin(Cli, p)
    /\ UNCHANGED <<files, db, queue, uploading, clock, lastOk>>
    /\ UNCHANGED outside

\* line 150: the filename of every recording whose status is done
ProcessedFiles == {Filename(recs[i].filepath) : i \in {j \in RecIds : recs[j].status = "done"}}

\* sorted(S) as a list
SortedPaths(S) ==
    [k \in 1..Cardinality(S) |->
        CHOOSE f \in S : Cardinality({g \in S : PathRank(g) < PathRank(f)}) = k - 1]

\* lines 153-154: the globbed files whose name is not in processed_files
Unprocessed == SortedPaths({f \in files : Filename(f) \notin ProcessedFiles})

\* lines 149-158: the query, the glob, the filter, the return when nothing
\* is left
BatchList ==
    /\ batch = "rest"
    /\ pc[Cli] = "free"
    /\ listed' = files
    /\ before' = {f \in files : \E i \in ByPath(f) : recs[i].status = "done"}
    /\ todo' = Unprocessed
    /\ batch' = IF Unprocessed = <<>> THEN "returned" ELSE "loop"
    /\ UNCHANGED <<life, pipe, stored, handed, watchv, labv>>

\* lines 161-162: _process_file on the next file of unprocessed
BatchStep ==
    /\ batch = "loop"
    /\ pc[Cli] = "free"
    /\ todo # <<>>
    /\ todo' = Tail(todo)
    /\ handed' = handed \cup {Head(todo)}
    /\ attempts' = attempts + 1
    /\ pc' = [pc EXCEPT ![Cli] = "lookup"]
    /\ path' = [path EXCEPT ![Cli] = Head(todo)]
    /\ UNCHANGED <<files, db, queue, uploading, rid, loaded, result, exc, clock, lastOk>>
    /\ UNCHANGED <<pipe, stored, batch, listed, before, watchv, labv>>

\* the loop has handed over every file: process_all_unprocessed returns
BatchReturn ==
    /\ batch = "loop"
    /\ pc[Cli] = "free"
    /\ todo = <<>>
    /\ batch' = "returned"
    /\ UNCHANGED <<life, pipe, stored, todo, listed, before, handed, watchv, labv>>

BatchNext ==
    \/ \E p \in Paths \cup Elsewhere : ProcessOne(p)
    \/ ProcessFile(Cli)
    \/ BatchList
    \/ BatchStep
    \/ BatchReturn

BatchSpec == BatchInit /\ [][BatchNext]_vars

\* ------------------------------------------ pipeline_start, pipeline_stop

\* start and stop requests over one behaviour
MaxRequests == 3
\* .wav files created in the watch directory over one behaviour
MaxCreated == 1

\* the worker threads pipeline_start has created so far
Workers == 1..Len(wk)

\* Thread.is_alive(): started and _run has not ended
IsAlive(i) == wk[i] # "dead"

\* _watcher_thread is not None and _watcher_thread.is_alive()
WatcherRunning == thread # 0 /\ IsAlive(thread)

\* between observer.start() and observer.stop() the worker's observer puts
\* created files in the worker's queue
Observing(i) == wk[i] \in {"check", "get", "busy"}

rest == <<life, pipe, stored, batchv, labv>>

\* pipeline_start, line 489: the request returns when the watcher runs
StartRequest(h) ==
    /\ hpc[h] = "rest"
    /\ reqs < MaxRequests
    /\ reqs' = reqs + 1
    /\ hpc' = [hpc EXCEPT ![h] = IF WatcherRunning THEN "rest" ELSE "clear"]
    /\ UNCHANGED <<thread, stopev, wk, wq, created, rest>>

\* lines 496-503: the stop event is cleared; a new queue, handler, observer
StartClear(h) ==
    /\ hpc[h] = "clear"
    /\ stopev' = FALSE
    /\ hpc' = [hpc EXCEPT ![h] = "spawn"]
    /\ UNCHANGED <<thread, wk, wq, reqs, created, rest>>

\* lines 520-524: a new thread becomes _watcher_thread and is started
StartSpawn(h) ==
    /\ hpc[h] = "spawn"
    /\ wk' = Append(wk, "new")
    /\ wq' = Append(wq, 0)
    /\ thread' = Len(wk) + 1
    /\ hpc' = [hpc EXCEPT ![h] = "rest"]
    /\ UNCHANGED <<stopev, reqs, created, rest>>

\* pipeline_stop, lines 532-535: the request returns when no watcher runs,
\* else it sets the stop event
StopRequest(h) ==
    /\ hpc[h] = "rest"
    /\ reqs < MaxRequests
    /\ reqs' = reqs + 1
    /\ IF WatcherRunning
       THEN stopev' = TRUE /\ hpc' = [hpc EXCEPT ![h] = "join"]
       ELSE UNCHANGED <<stopev, hpc>>
    /\ UNCHANGED <<thread, wk, wq, created, rest>>

\* lines 536-538: _watcher_thread.join(timeout=5) returns when the thread
\* has ended, or after five seconds while it is inside _process_file; then
\* _watcher_thread = None.  When another request has made it None already
\* the join raises and the request ends
StopJoin(h) ==
    /\ hpc[h] = "join"
    /\ IF thread = 0 THEN TRUE ELSE wk[thread] \in {"dead", "busy"}
    /\ thread' = 0
    /\ hpc' = [hpc EXCEPT ![h] = "rest"]
    /\ UNCHANGED <<stopev, wk, wq, reqs, created, rest>>

\* _run, line 506: observer.start()
WorkerStart(i) ==
    /\ i \in Workers
    /\ wk[i] = "new"
    /\ wk' = [wk EXCEPT ![i] = "check"]
    /\ UNCHANGED <<thread, stopev, wq, hpc, reqs, created, rest>>

\* line 508: the loop condition; when the event is set the finally block
\* stops the observer and the thread ends
WorkerCheck(i) ==
    /\ i \in Workers
    /\ wk[i] = "check"
    /\ wk' = [wk EXCEPT ![i] = IF stopev THEN "dead" ELSE "get"]
    /\ UNCHANGED <<thread, stopev, wq, hpc, reqs, created, rest>>

\* line 510: processing_queue.get(timeout=1) returns a path or raises Empty
WorkerGet(i) ==
    /\ i \in Workers
    /\ wk[i] = "get"
    /\ IF wq[i] > 0
       THEN wk' = [wk EXCEPT ![i] = "busy"] /\ wq' = [wq EXCEPT ![i] = @ - 1]
       ELSE wk' = [wk EXCEPT ![i] = "check"] /\ UNCHANGED wq
    /\ UNCHANGED <<thread, stopev, hpc, reqs, created, rest>>

\* lines 511-513: _process_file returns and the loop goes on, or it raises
\* and the finally block ends the thread
WorkerDone(i) ==
    /\ i \in Workers
    /\ wk[i] = "busy"
    /\ \/ wk' = [wk EXCEPT ![i] = "check"]
       \/ wk' = [wk EXCEPT ![i] = "dead"]
    /\ UNCHANGED <<thread, stopev, wq, hpc, reqs, created, rest>>

\* WavFileHandler.on_created in every observer that runs
FileCreated ==
    /\ created < MaxCreated
    /\ created' = created + 1
    /\ wq' = [i \in DOMAIN wq |-> IF Observing(i) THEN wq[i] + 1 ELSE wq[i]]
    /\ UNCHANGED <<thread, stopev, wk, hpc, reqs, rest>>

WatchNext ==
    \/ \E h \in Handlers : StartRequest(h)
    \/ \E h \in Handlers : StartClear(h)
    \/ \E h \in Handlers : StartSpawn(h)
    \/ \E h \in Handlers : StopRequest(h)
    \/ \E h \in Handlers : StopJoin(h)
    \/ \E i \in 1..MaxRequests : WorkerStart(i)
    \/ \E i \in 1..MaxRequests : WorkerCheck(i)
    \/ \E i \in 1..MaxRequests : WorkerGet(i)
    \/ \E i \in 1..MaxRequests : WorkerDone(i)
    \/ FileCreated

WatchSpec == Init /\ [][WatchNext]_vars

\* ------------------------------------- the labelling of a mono recording

\* diarization segments handed to the labelling: 0..MaxTurns
MaxTurns == 3
\* transcription segments handed to the labelling: 0..MaxUtterances
MaxUtterances == 2

\* speaker tags of a call with a third voice
LabelTags == Tags \cup {"SPEAKER_02"}

\* start and end of the diarization segments
TurnIntervals == {<<0, 1>>, <<1, 4>>}

Turns == {[speaker |-> g, start |-> iv[1], end |-> iv[2]] : g \in LabelTags, iv \in TurnIntervals}

\* what diarize returns: sorted by start
LabelDiarizations ==
    {d \in SeqsUpTo(Turns, MaxTurns) : \A i, j \in DOMAIN d : i < j => d[i].start <= d[j].start}

\* the segments of a call: a short answer at either time, the sales pitch
\* early, the hesitation late
Utterances ==
    {[text |-> "tak", start |-> iv[1], end |-> iv[2]] : iv \in SpeechIntervals}
    \cup {[text |-> SalesPitch, start |-> 0, end |-> 2],
          [text |-> Hesitation, start |-> 3, end |-> 4]}

\* what transcribe returns
LabelTranscriptions == SeqsUpTo(Utterances, MaxUtterances)

\* _run_mono_pipeline has the diarization and the transcription of a file
LabelInit ==
    /\ LifeInit
    /\ PipeRest
    /\ StoredRest
    /\ BatchRest
    /\ WatchRest
    /\ given \in [dia : LabelDiarizations, tr : LabelTranscriptions]
    /\ phase = "given"
    /\ roles = <<>>
    /\ scores = <<>>
    /\ signals = <<>>
    /\ aligned = <<>>
    /\ raw = <<>>

\* line 511: _label_speakers_smart; scores and signals follow top_speakers
LabelSpeakers ==
    /\ phase = "given"
    /\ phase' = "labelled"
    /\ roles' = LabelSpeakersSmart(given.dia, given.tr)
    /\ signals' = CandidateSignals(given.dia, given.tr)
    /\ scores' = [k \in DOMAIN signals' |->
                     [tag |-> signals'[k].tag, score2 |-> SumSignals(signals'[k])]]
    /\ UNCHANGED <<given, aligned, raw>>
    /\ UNCHANGED <<life, pipe, stored, batchv, watchv>>

\* line 514: _align_segments with the speaker_map
Align ==
    /\ phase = "labelled"
    /\ phase' = "aligned"
    /\ aligned' = AlignSegments(given.tr, given.dia, roles)
    /\ raw' = [i \in DOMAIN given.tr |->
                 IF OverlapKeys(given.tr[i], given.dia) # {}
                 THEN BestSpeaker(given.tr[i], given.dia)
                 ELSE "None"]
    /\ UNCHANGED <<given, roles, scores, signals>>
    /\ UNCHANGED <<life, pipe, stored, batchv, watchv>>

LabelNext ==
    \/ LabelSpeakers
    \/ Align

LabelSpec == LabelInit /\ [][LabelNext]_vars

\* ------------------------------------------------------------- claims

InProcessFile == {"lookup", "reset", "create", "start", "pipeline", "persist", "except"}

\* C1: with a single worker, when an attempt raised m while the recording
\* was processing, _process_file ends with the recording in status error,
\* error_message m, and no transcript or segment row of that recording.
C1_FailureEndsInError ==
    [][\A t \in Procs : \A r \in RecIds :
          (pc[t] = "except" /\ rid[t] = r /\ pc'[t] # "except")
          => /\ recs[r].status = "processing"
             /\ pc'[t] = Returned(t)
             /\ recs'[r].status = "error"
             /\ recs'[r].error_message = exc[t]
             /\ TranscriptsOf(r)' = {}
             /\ SegmentsOf(r)' = {}]_vars

\* a failed attempt has ended: its recording is in error with the message
\* raised and has no rows, and no thread is inside _process_file
C1_Witness ==
    /\ \A t \in Procs : pc[t] \notin InProcessFile
    /\ \E r \in RecIds :
          /\ recs[r].status = "error"
          /\ recs[r].error_message \in Msgs
          /\ TranscriptsOf(r) = {}
          /\ SegmentsOf(r) = {}

\* C2: in every reachable state a recording in status error has no
\* transcript and no segment row.
C2_ErrorHasNoRows ==
    \A r \in RecIds :
        recs[r].status = "error" => TranscriptsOf(r) = {} /\ SegmentsOf(r) = {}

\* C3: a recording in status done has a transcript, and the transcript the
\* query layer returns for it is the one of its latest successful attempt.
C3_DoneReturnsLatest ==
    \A r \in RecIds :
        recs[r].status = "done"
        => TranscriptsOf(r) # {} /\ ReturnedAttempt(r) = lastOk[r]

\* C4: when a recording goes from pending to processing it has no
\* transcript or segment row left, and it never holds two transcripts.
C4_ProcessingReplaces ==
    [][\A r \in RecIds :
          /\ (recs[r].status = "pending" /\ recs'[r].status = "processing")
             => TranscriptsOf(r)' = {} /\ SegmentsOf(r)' = {}
          /\ Cardinality(TranscriptsOf(r)') <= 1]_vars

\* the status changes the lifecycle lists
Allowed ==
    {<<"pending", "processing">>, <<"processing", "done">>, <<"processing", "error">>,
     <<"error", "pending">>, <<"done", "pending">>}

\* C5: every change of a recording's status is one of the listed ones.
C5_OnlyListedTransitions ==
    [][\A r \in RecIds :
          recs'[r].status # recs[r].status
          => <<recs[r].status, recs'[r].status>> \in Allowed]_vars

\* C6: _process_file on a path whose recording is done returns at once:
\* the pipeline is not reached and no row of any table changes.
C6_DoneIsNoOp ==
    [][\A t \in Procs :
          (/\ pc[t] = "lookup"
           /\ pc'[t] # "lookup"
           /\ FirstByPath(path[t]) # 0
           /\ recs[FirstByPath(path[t])].status = "done")
          => pc'[t] = Returned(t) /\ UNCHANGED db]_vars

\* _process_file has been called on a path whose recording is done
C6_Witness ==
    \E t \in Procs :
        /\ pc[t] = "lookup"
        /\ FirstByPath(path[t]) # 0
        /\ recs[FirstByPath(path[t])].status = "done"
        /\ TranscriptsOf(FirstByPath(path[t])) # {}

\* C7: when _process_file found an existing recording that is not done,
\* its reset leaves the recording pending with no error message and no
\* processed timestamp.
C7_ResetClears ==
    [][\A t \in Procs : \A r \in RecIds :
          (pc[t] = "reset" /\ rid[t] = r /\ pc'[t] # "reset")
          => /\ recs'[r].status = "pending"
             /\ recs'[r].error_message = NoMsg
             /\ recs'[r].processed_at = Null]_vars

\* C8: no exception leaves _process_file.
C8_NeverPropagates == \A t \in Procs : pc[t] # "raised"

\* C9: the watcher thread does not end while a path waits in its queue, so
\* every queued path can still be dequeued and processed.
C9_WorkerOutlivesQueue == \A w \in Watchers : queue # <<>> => pc[w] # "raised"

\* C10: there is at most one recording per path, and a thread that found a
\* recording for its path works on that recording.
C10_PathIsKey ==
    /\ \A i, j \in RecIds : recs[i].filepath = recs[j].filepath => i = j
    /\ \A t \in Procs :
          (pc[t] \in InProcessFile /\ rid[t] # 0)
          => rid[t] \in RecIds /\ recs[rid[t]].filepath = path[t]

\* a later _process_file call found the one recording of its path and
\* holds its id
C10_Witness ==
    \E t \in Procs :
        /\ pc[t] = "reset"
        /\ attempts >= 2
        /\ Len(recs) = 1
        /\ recs[rid[t]].filepath = path[t]

\* C11: a recording in error leaves error only by going to pending,
\* through the reset of a _process_file call on its path or of a reprocess
\* request; no other step of a worker changes its status.
C11_NoAutomaticRetry ==
    [][\A r \in RecIds :
          (recs[r].status = "error" /\ recs'[r].status # "error")
          => /\ recs'[r].status = "pending"
             /\ \E t \in Procs :
                   /\ rid[t] = r
                   /\ pc[t] \in {"reset", "rp_commit"}
                   /\ pc'[t] # pc[t]]_vars

\* how often x occurs in the list
CountIn(list, x) == Cardinality({i \in DOMAIN list : list[i] = x})

\* C12: a run that no collaborator failed returns a result, in stereo mode
\* with 2 speakers when the audio has 2 or more channels, in mono mode when
\* it has 1.
C12_RoutingByChannelCount ==
    (stage \in {"done", "failed"} /\ err \notin PipeMsgs)
    => /\ stage = "done"
       /\ audio.channels >= 2 => out.channel_mode = "stereo" /\ out.num_speakers = 2
       /\ audio.channels = 1 => out.channel_mode = "mono"

\* C13: a stereo run never calls the diarizer or the classifier; when it
\* returns it has called whisper twice and its agent segments are the
\* segments of channel 0, its customer segments those of channel 1; a mono
\* run that returns has called the diarizer once and whisper once.
C13_StereoRolesByChannel ==
    /\ audio.channels >= 2 => calls.diarize = 0 /\ calls.classify = 0
    /\ (stage = "done" /\ audio.channels >= 2)
       => /\ calls.transcribe = 2
          /\ Len(out.segments) = Len(audio.left) + Len(audio.right)
          /\ \A x \in TranscriptionSegments :
                /\ CountIn(out.segments, AlignedSegment("agent", x)) = CountIn(audio.left, x)
                /\ CountIn(out.segments, AlignedSegment("customer", x)) = CountIn(audio.right, x)
    /\ (stage = "done" /\ audio.channels = 1)
       => calls.diarize = 1 /\ calls.transcribe = 1

\* a stereo run has returned; channel 0 said the customer-like answer and
\* channel 1 the sales sentence
C13_Witness ==
    /\ stage = "done"
    /\ audio.channels = 2
    /\ \E i \in DOMAIN audio.left : ShortResponse(audio.left[i].text)
    /\ \E i \in DOMAIN audio.right : AgentPhrases(audio.right[i].text) # {}

\* C14: the full_text of every PipelineResult is the rendering of its
\* segments sorted by start: its lines are in ascending start order.
C14_TextInStartOrder ==
    stage = "done" => out.full_text = BuildFullText(SortByStart(out.segments))

\* C15: after two swap_speakers calls the persisted transcript, labels and
\* full_text, is again what the pipeline persisted.
C15_SwapTwiceRestores == (rows.present /\ swaps = 2) => rows = orig

\* C16: a swap_speakers call that finds a transcript turns agent into
\* customer and customer into agent and leaves the segments otherwise as
\* they are, in number, order, text, times and confidence, and leaves the
\* recordings alone; a call that finds none returns False and changes no
\* row.
C16_SwapFrame ==
    [][/\ swaps' # swaps
          => /\ rows.present /\ swapret' = "True"
             /\ recs' = recs
             /\ Len(rows'.segments) = Len(rows.segments)
             /\ \A i \in DOMAIN rows.segments :
                   /\ rows.segments[i].speaker_label = "agent"
                      => rows'.segments[i].speaker_label = "customer"
                   /\ rows.segments[i].speaker_label = "customer"
                      => rows'.segments[i].speaker_label = "agent"
                   /\ rows'.segments[i].text = rows.segments[i].text
                   /\ rows'.segments[i].start_time = rows.segments[i].start_time
                   /\ rows'.segments[i].end_time = rows.segments[i].end_time
                   /\ rows'.segments[i].confidence = rows.segments[i].confidence
       /\ swapret' # swapret
          => IF rows.present
             THEN swapret' = "True"
             ELSE swapret' = "False" /\ rows' = rows /\ recs' = recs]_vars

\* one swap has been made on the transcript of a done recording that has
\* an agent and a customer segment
C16_Witness ==
    /\ swaps = 1
    /\ swapret = "True"
    /\ recs[1].status = "done"
    /\ \E i, j \in DOMAIN rows.segments :
          /\ rows.segments[i].speaker_label = "agent"
          /\ rows.segments[j].speaker_label = "customer"

\* C17: once the run has returned or raised, no temporary channel file
\* exists.
C17_TempFilesReleased == stage \in {"done", "failed", "persisted"} => tmp = {}

\* a stereo run created both channel files and failed in the second
\* transcription; the files are gone
C17_Witness ==
    /\ stage = "failed"
    /\ made = TempFiles
    /\ calls.transcribe = 2
    /\ tmp = {}

\* C18: when process_all_unprocessed has returned, every .wav file it found
\* in the directory has a recording for its path whose status is done or
\* error, and no file whose path had a done recording was handed to
\* _process_file
C18_BatchCoversDirectory ==
    batch = "returned" =>
        /\ \A f \in listed : \E i \in ByPath(f) : recs[i].status \in {"done", "error"}
        /\ before \cap handed = {}

\* C19: at most one worker thread created by pipeline_start is alive, and
\* at most one is inside _process_file
C19_OneWatcherWorker ==
    /\ Cardinality({i \in Workers : IsAlive(i)}) <= 1
    /\ Cardinality({i \in Workers : wk[i] = "busy"}) <= 1

\* the transcription segment overlaps no diarization segment
NoOverlapAtAll(tseg, diarization) ==
    \A j \in DOMAIN diarization :
        Overlap(tseg.start, tseg.end, diarization[j].start, diarization[j].end) = 0

\* C20: in the result of a mono run every transcription segment that
\* overlaps no diarization segment is labelled agent; with no diarization
\* segment at all the speaker map is empty and every segment is agent.
C20_NoOverlapFallback ==
    (stage = "done" /\ audio.channels = 1)
    => /\ Len(out.segments) = Len(audio.mono)
       /\ \A i \in DOMAIN audio.mono :
             NoOverlapAtAll(audio.mono[i], audio.dia) => out.segments[i].speaker = "agent"
       /\ audio.dia = <<>>
          => /\ DOMAIN LabelSpeakersSmart(audio.dia, audio.mono) = {}
             /\ \A i \in DOMAIN out.segments : out.segments[i].speaker = "agent"

\* a mono run has returned; a segment that only touches the diarization
\* segments is agent, beside a segment the classifier made customer
C20_Witness ==
    /\ stage = "done"
    /\ audio.channels = 1
    /\ audio.dia # <<>>
    /\ \E i, j \in DOMAIN audio.mono :
          /\ NoOverlapAtAll(audio.mono[i], audio.dia)
          /\ out.segments[i].speaker = "agent"
          /\ out.segments[j].speaker = "customer"

\* C21: _align_segments returns one segment for each transcription
\* segment, in the order of the transcription, with its text, start and end,
\* and leaves the transcription, the diarization and the speaker_map as
\* they were
C21_AlignerShape ==
    [][(phase = "labelled" /\ phase' = "aligned") =>
          /\ given' = given
          /\ roles' = roles
          /\ Len(aligned') = Len(given.tr)
          /\ \A i \in DOMAIN given.tr :
                /\ aligned'[i].text = given.tr[i].text
                /\ aligned'[i].start = given.tr[i].start
                /\ aligned'[i].end = given.tr[i].end]_vars

C21_Witness ==
    /\ phase = "aligned"
    /\ Len(aligned) = 2
    /\ given.dia # <<>>
    /\ aligned[1].text # aligned[2].text
    /\ aligned[1].start > aligned[2].start

\* the lists with the elements of list in another order
Reorderings(list) ==
    {[i \in DOMAIN list |-> list[f[i]]] : f \in Permutations(DOMAIN list)}

\* the candidates with their scores
ScoreTable(diarization, transcription) ==
    {[tag |-> TopSpeakers(diarization)[k],
      score2 |-> Score2(diarization, transcription, TopSpeakers(diarization)[k])] :
        k \in DOMAIN TopSpeakers(diarization)}

\* C22: the scores of the candidates and the speaker_map are the same for
\* every reordering of the diarization segments and of the transcription
\* segments
C22_OrderIndependent ==
    phase = "labelled" =>
        \A d \in Reorderings(given.dia), x \in Reorderings(given.tr) :
            /\ LabelSpeakersSmart(d, x) = roles
            /\ ScoreTable(d, x) = {scores[k] : k \in DOMAIN scores}

\* the intervals of the segments the aligner was given
GivenIntervals ==
    {<<given.dia[i].start, given.dia[i].end>> : i \in DOMAIN given.dia}
    \cup {<<given.tr[i].start, given.tr[i].end>> : i \in DOMAIN given.tr}

\* C23: the overlap of two intervals is the same in both directions and
\* never negative, and is zero when the intervals are disjoint or only touch
C23_OverlapSymmetric ==
    phase = "aligned" =>
        \A a \in GivenIntervals, b \in GivenIntervals :
            /\ Overlap(a[1], a[2], b[1], b[2]) = Overlap(b[1], b[2], a[1], a[2])
            /\ Overlap(a[1], a[2], b[1], b[2]) >= 0
            /\ (a[2] <= b[1] \/ b[2] <= a[1]) => Overlap(a[1], a[2], b[1], b[2]) = 0

C23_Witness ==
    /\ phase = "aligned"
    /\ \E a \in GivenIntervals, b \in GivenIntervals : a[2] = b[1]
    /\ \E a \in GivenIntervals, b \in GivenIntervals : a[2] < b[1]
    /\ \E a \in GivenIntervals, b \in GivenIntervals :
          a # b /\ Overlap(a[1], a[2], b[1], b[2]) > 0

\* the diarization segments of the tag that overlap transcription segment i
Overlapping(i, tag) ==
    {j \in DOMAIN given.dia :
        /\ given.dia[j].speaker = tag
        /\ given.dia[j].start < given.tr[i].end
        /\ given.tr[i].start < given.dia[j].end}

\* the overlaps of transcription segment i with the segments of the tag, added up
Accumulated(i, tag) ==
    SumOf([j \in DOMAIN given.dia |->
              Min2(given.tr[i].end, given.dia[j].end)
              - Max2(given.tr[i].start, given.dia[j].start)],
          Overlapping(i, tag))

\* C24: the tag chosen for a transcription segment has the largest
\* accumulated overlap, and among the tags with that overlap it is the one
\* whose first overlapping diarization segment comes first in the list
C24_MaxOverlapFirstWins ==
    phase = "aligned" =>
        \A i \in DOMAIN given.tr :
            IF \A tag \in LabelTags : Overlapping(i, tag) = {}
            THEN raw[i] = "None"
            ELSE /\ Overlapping(i, raw[i]) # {}
                 /\ \A tag \in LabelTags :
                       Overlapping(i, tag) # {} =>
                          \/ Accumulated(i, raw[i]) > Accumulated(i, tag)
                          \/ /\ Accumulated(i, raw[i]) = Accumulated(i, tag)
                             /\ \A j \in Overlapping(i, tag) :
                                   \E k \in Overlapping(i, raw[i]) : k <= j

C24_Witness ==
    /\ phase = "aligned"
    /\ \E i \in DOMAIN given.tr :
          /\ Cardinality(Overlapping(i, raw[i])) = 2
          /\ \E tag \in LabelTags \ {raw[i]} :
                /\ Overlapping(i, tag) # {}
                /\ Accumulated(i, tag) < Accumulated(i, raw[i])
    /\ \E i \in DOMAIN given.tr :
          \E tag \in LabelTags \ {raw[i]} :
              /\ Overlapping(i, tag) # {}
              /\ Accumulated(i, tag) = Accumulated(i, raw[i])

\* the tags of the diarization, and the time each speaks
GivenTags == {given.dia[i].speaker : i \in DOMAIN given.dia}

Spoken(tag) ==
    SumOf([j \in DOMAIN given.dia |-> given.dia[j].end - given.dia[j].start],
          {j \in DOMAIN given.dia : given.dia[j].speaker = tag})

\* C25: the speaker_map has at most two keys, no tag outside it speaks
\* longer than a key; with two tags or more it has two keys, one agent and
\* one customer, and with one tag it has one key
C25_RoleMapShape ==
    phase \in {"labelled", "aligned"} =>
        /\ DOMAIN roles \subseteq GivenTags
        /\ Cardinality(DOMAIN roles) <= 2
        /\ \A k \in DOMAIN roles, tag \in GivenTags \ DOMAIN roles : Spoken(k) >= Spoken(tag)
        /\ Cardinality(GivenTags) >= 2 =>
              /\ Cardinality(DOMAIN roles) = 2
              /\ {roles[k] : k \in DOMAIN roles} = {"agent", "customer"}
        /\ Cardinality(GivenTags) = 1 => Cardinality(DOMAIN roles) = 1

C25_Witness ==
    /\ phase = "labelled"
    /\ Cardinality(GivenTags) = 3
    /\ \E tag \in GivenTags \ DOMAIN roles : \A k \in DOMAIN roles : Spoken(tag) < Spoken(k)

\* C26: with two candidates the one with the higher score is the agent and
\* the other the customer; with equal scores the agent is the first
\* candidate, which speaks at least as long as the second
C26_HigherScoreIsAgent ==
    (phase \in {"labelled", "aligned"} /\ Len(scores) = 2) =>
        /\ Spoken(scores[1].tag) >= Spoken(scores[2].tag)
        /\ scores[1].score2 >= scores[2].score2 =>
              roles[scores[1].tag] = "agent" /\ roles[scores[2].tag] = "customer"
        /\ scores[1].score2 < scores[2].score2 =>
              roles[scores[2].tag] = "agent" /\ roles[scores[1].tag] = "customer"

C26_Witness ==
    /\ phase = "labelled"
    /\ Len(scores) = 2
    /\ given.tr # <<>>
    /\ scores[1].score2 = scores[2].score2
    /\ roles[scores[1].tag] = "agent"

\* the transcription segments that overlap a segment of the tag
Heard(tag) == {i \in DOMAIN given.tr : Overlapping(i, tag) # {}}

\* C27: the only tag of a diarization is the customer exactly when no agent
\* phrase is found in its segments and more than half of them have fewer
\* than 5 words; otherwise, also when it has no segment, it is the agent
C27_SingleSpeaker ==
    (phase \in {"labelled", "aligned"} /\ Cardinality(GivenTags) = 1) =>
        \A tag \in GivenTags :
            /\ roles[tag] \in {"agent", "customer"}
            /\ roles[tag] = "customer" <=>
                  /\ \A i \in Heard(tag) : AgentPhrases(given.tr[i].text) = {}
                  /\ 2 * Cardinality({i \in Heard(tag) : Words(given.tr[i].text) < 5})
                        > Cardinality(Heard(tag))

C27_Witness ==
    /\ phase = "labelled"
    /\ Cardinality(GivenTags) = 1
    /\ \E tag \in GivenTags :
          /\ roles[tag] = "agent"
          /\ Cardinality(Heard(tag)) = 2
          /\ \A i \in Heard(tag) : AgentPhrases(given.tr[i].text) = {}
          /\ \E i \in Heard(tag) : Words(given.tr[i].text) < 5

\* the transcription segments whose text counts for the tag
TextsOf(tag) == {i \in DOMAIN raw : raw[i] = tag}

\* how many times the patterns occur in the texts of the tag
OccurrencesIn(tag) ==
    SumOf([i \in DOMAIN given.tr |->
              SumOf([q \in AgentPhrases(SalesPitch) |-> Occurrences(given.tr[i].text, q)],
                    AgentPhrases(SalesPitch))],
          TextsOf(tag))

\* C28: the agent phrases add 3.0 to the score of a candidate for each
\* occurrence in its texts, and the diversity bonus of 2.0 is given exactly
\* when 3 distinct patterns or more are found
C28_PerOccurrence ==
    phase = "aligned" =>
        \A k \in DOMAIN signals :
            /\ signals[k].phrases = 6 * OccurrencesIn(signals[k].tag)
            /\ signals[k].diversity =
                  IF Cardinality(UNION {AgentPhrases(given.tr[i].text) :
                                           i \in TextsOf(signals[k].tag)}) >= 3
                  THEN 4 ELSE 0

\* the start of the first diarization segment of the tag
FirstStart(tag) ==
    given.dia[MinOf({j \in DOMAIN given.dia : given.dia[j].speaker = tag})].start

\* C29: of two candidates each one whose first diarization segment starts
\* no later than the other's gets the speaks-first bonus of 0.5, so one of
\* them always gets it
C29_SpeaksFirst ==
    (phase \in {"labelled", "aligned"} /\ Len(signals) = 2) =>
        /\ signals[1].first =
              IF FirstStart(signals[1].tag) <= FirstStart(signals[2].tag) THEN 1 ELSE 0
        /\ signals[2].first =
              IF FirstStart(signals[2].tag) <= FirstStart(signals[1].tag) THEN 1 ELSE 0
        /\ signals[1].first = 1 \/ signals[2].first = 1

\* C30: every aligned segment of a mono run is the agent's or the
\* customer's, and a segment whose tag of largest overlap is not a key of
\* the speaker_map is the customer's
C30_ThirdSpeakerIsCustomer ==
    phase = "aligned" =>
        \A i \in DOMAIN aligned :
            /\ aligned[i].speaker \in {"agent", "customer"}
            /\ (raw[i] # "None" /\ raw[i] \notin DOMAIN roles) => aligned[i].speaker = "customer"

C30_Witness ==
    /\ phase = "aligned"
    /\ Cardinality(DOMAIN roles) = 2
    /\ \E i \in DOMAIN aligned :
          /\ raw[i] \in GivenTags \ DOMAIN roles
          /\ \A tag \in DOMAIN roles : Overlapping(i, tag) # {}
          /\ aligned[i].speaker = "customer"

====
